---------------------------- MODULE Spec2Model ----------------------------
(***************************************************************************)
(* Model of app/aws/dynamodb/users_table.py: the users_table operations    *)
(* put_user, update_user, update_railway, delete_user, get_user,           *)
(* get_railway and scan_exclude_railway over one DynamoDB table.           *)
(*                                                                         *)
(* Python values:                                                          *)
(*   - Optional[x] is a sequence: None is <<>>, a value v is <<v>>;        *)
(*   - a dict / DynamoDB item is a function from attribute names to        *)
(*     values, an attribute that is not set is not in its DOMAIN;          *)
(*   - the table is the set of its items, user_id is the partition key.    *)
(***************************************************************************)
EXTENDS Integers, Sequences, FiniteSets, TLC

\* Largest reading of the clock (datetime.utcnow().timestamp()).
MaxClock == 2

\* Number of distinct DelayInfoMessages values offered to update_user.
NumPayloads == 2

\* Number of items one scan request evaluates before it stops with a
\* LastEvaluatedKey (the store's 1 MB page, scaled to the model's tables).
PageLimit == 1

\* Number of concurrent callers of SpecConc.
NumCallers == 2

RAILWAY == "railway"

UserIds == {RAILWAY, "u1"}

\* Outcomes of one request to the store: success, or one of its exceptions.
StoreFailures == {"ClientError", "EndpointConnectionError"}

StoreOutcomes == {"ok"} \cup StoreFailures

None == <<>>

Some(v) == <<v>>

\* The DelayInfoMessages objects callers pass in.
DelayInfoMessages(i) == [cls |-> "DelayInfoMessages", messages |-> i]

Payloads == {DelayInfoMessages(i) : i \in 1..NumPayloads}

\* DelayInfoMessages.to_dict(): the nested mapping of the object.
MessagesToDict(d) == [messages |-> d.messages]

\* User(user_id, created_time, updated_time, delay_info_messages=None)
User(user_id, created_time, updated_time, delay_info_messages) ==
    [user_id |-> user_id, created_time |-> created_time,
     updated_time |-> updated_time, delay_info_messages |-> delay_info_messages]

OptionalFields == {"created_time", "updated_time", "delay_info_messages"}

\* User.to_dict(): the fields that are set, as a mapping.
UserToDict(user) ==
    [k \in {"user_id"} \cup {f \in OptionalFields : user[f] # None} |->
        IF k = "user_id" THEN user.user_id ELSE user[k][1]]

\* utils.replace_data(): normalises the numeric leaves of a mapping to the
\* store's number type. Timestamps are integers here and stay integers.
replace_data(data) == [k \in DOMAIN data |-> data[k]]

\* dict.get(key): None when the key is absent.
Get(item, k) == IF k \in DOMAIN item THEN Some(item[k]) ELSE None

HasKey(tbl, user_id) == \E i \in tbl : i.user_id = user_id

ItemOf(tbl, user_id) == CHOOSE i \in tbl : i.user_id = user_id

(***************************************************************************)
(* The store's requests, as the module calls them.                         *)
(***************************************************************************)

\* A put_item that keeps the attributes of the item it replaces.
PutItemMerge(tbl, item) ==
    LET old == IF HasKey(tbl, item.user_id) THEN ItemOf(tbl, item.user_id) ELSE item
    IN  {i \in tbl : i.user_id # item.user_id} \cup
        {[k \in DOMAIN old \cup DOMAIN item |->
            IF k \in DOMAIN item THEN item[k] ELSE old[k]]}

\* A put_item that does not replace the item with the same key.
PutItemAppend(tbl, item) == tbl \cup {item}

\* users_table.put_item(Item=item): replaces the whole item with that key.
PutItem(tbl, item) == {i \in tbl : i.user_id # item.user_id} \cup {item}

\* An update_item that writes the item anew from the key and the set values.
UpdateItemOverwrite(tbl, user_id, values) ==
    {i \in tbl : i.user_id # user_id} \cup
    {[k \in {"user_id"} \cup DOMAIN values |->
        IF k = "user_id" THEN user_id ELSE values[k]]}

\* users_table.update_item(Key, "set #a=:a, #b=:b", ...): sets the named
\* attributes of the item with that key and keeps its other attributes; an
\* item is made of the key and the set attributes when there is none.
UpdateItem(tbl, user_id, values) ==
    LET old == IF HasKey(tbl, user_id) THEN ItemOf(tbl, user_id)
               ELSE [k \in {"user_id"} |-> user_id]
    IN  {i \in tbl : i.user_id # user_id} \cup
        {[k \in DOMAIN old \cup DOMAIN values |->
            IF k \in DOMAIN values THEN values[k] ELSE old[k]]}

\* A delete_item that leaves the item in place.
DeleteItemKeep(tbl, user_id) == tbl

\* users_table.delete_item(Key=key): no error when there is no such item.
DeleteItem(tbl, user_id) == {i \in tbl : i.user_id # user_id}

\* users_table.get_item(Key=key), then response.get('Item').
GetItem(tbl, user_id) ==
    IF HasKey(tbl, user_id) THEN Some(ItemOf(tbl, user_id)) ELSE None

\* The orders in which a scan may walk the table (the store's choice).
ScanOrders(tbl) ==
    {s \in [1..Cardinality(tbl) -> tbl] :
        \A i, j \in 1..Cardinality(tbl) : i # j => s[i] # s[j]}

NotRailway(item) == item.user_id # RAILWAY

\* users_table.scan(FilterExpression='user_id <> :user_id'), response['Items']:
\* one request evaluates at most one page of items, then applies the filter.
ScanItems(order) ==
    LET n    == IF Len(order) < PageLimit THEN Len(order) ELSE PageLimit
        page == SubSeq(order, 1, n)
    IN  SelectSeq(page, NotRailway)

\* User(item['user_id'], item.get('created_time'), item.get('updated_time'),
\*      item.get('delay_info_messages'))
UserOfItem(item) ==
    User(item.user_id, Get(item, "created_time"), Get(item, "updated_time"),
         Get(item, "delay_info_messages"))

(***************************************************************************)
(* try: <one store request> except Exception as e: raise e                 *)
(***************************************************************************)

\* A request that is issued again after it failed.
InvokeRetry(api, out) ==
    IF out = "ok" THEN <<[api |-> api, raised |-> out]>>
    ELSE <<[api |-> api, raised |-> out], [api |-> api, raised |-> out]>>

\* The requests one invocation sends: exactly the one in the try block.
Invoke(api, out) == <<[api |-> api, raised |-> out]>>

\* raise e: the exception of the store, as it is.
Raise(e) == e

VARIABLES table, clock, result, calls, hist, callers

vars == <<table, clock, result, calls, hist, callers>>


TypeOK ==
    /\ clock \in 0..MaxClock
    /\ \A i \in table : i.user_id \in UserIds
    /\ DOMAIN hist = UserIds
    /\ DOMAIN callers = 1..NumCallers

Idle == [pc |-> "idle"]

NoWrite == [op |-> "none"]

\* The state before any call: the table handle is taken and the table holds
\* no item yet.
Init ==
    /\ clock = 0
    /\ table = {}
    /\ result = [op |-> "none"]
    /\ calls = <<>>
    /\ hist = [u \in UserIds |-> NoWrite]
    /\ callers = [c \in 1..NumCallers |-> Idle]

\* The last successful write on each key, with what the properties of call
\* sequences need of the write before it (history only, read by no operation).
Remember(h, user_id, e) == [h EXCEPT ![user_id] = e]

\* The clock moves on between calls; it never goes back.
Tick ==
    /\ clock < MaxClock
    /\ clock' = clock + 1
    /\ UNCHANGED <<table, result, calls, hist, callers>>

\* An update that sets the payload and leaves updated_time alone.
ExpressionValueNoTime(delay_info_messages, now) ==
    [k \in {"delay_info_messages"} |-> MessagesToDict(delay_info_messages)]

\* An update that sets updated_time and leaves the payload alone.
ExpressionValueNoPayload(delay_info_messages, now) ==
    [k \in {"updated_time"} |-> now]

\* expression, expression_name and expression_value of update_user: the
\* attributes the update sets, and their values.
ExpressionValue(delay_info_messages, now) ==
    [delay_info_messages |-> MessagesToDict(delay_info_messages),
     updated_time |-> now]

\* A lookup that returns None instead of raising.
RailwayOrNone(railway_user) == [outcome |-> "ok", ret |-> railway_user]

\* get_railway after its get_user: raise DynamoDBError when there is no
\* railway user, return the user otherwise.
RailwayOrRaise(railway_user) ==
    IF railway_user = None
    THEN [outcome |-> "DynamoDBError", ret |-> None]
    ELSE [outcome |-> "ok", ret |-> railway_user]

(***************************************************************************)
(* The operations, one call each, run by one caller at a time.             *)
(***************************************************************************)

put_user(user_id, out) ==
    LET timestamp_now == clock
        user == User(user_id, Some(timestamp_now), Some(timestamp_now), None)
    IN  /\ calls' = Invoke("put_item", out)
        /\ IF out = "ok"
           THEN /\ table' = PutItem(table, replace_data(UserToDict(user)))
                /\ hist' = Remember(hist, user_id,
                       [op |-> "put_item", t |-> timestamp_now,
                        had_payload |->
                            /\ HasKey(table, user_id)
                            /\ "delay_info_messages" \in
                                   DOMAIN ItemOf(table, user_id)])
                /\ result' = [op |-> "put_user", user_id |-> user_id,
                              outcome |-> "ok"]
           ELSE /\ UNCHANGED <<table, hist>>
                /\ result' = [op |-> "put_user", user_id |-> user_id,
                              outcome |-> Raise(out)]
        /\ UNCHANGED <<clock, callers>>

update_user(user_id, delay_info_messages, out) ==
    LET expression_value == ExpressionValue(delay_info_messages, clock)
    IN  /\ calls' = Invoke("update_item", out)
        /\ IF out = "ok"
           THEN /\ table' = UpdateItem(table, user_id,
                                       replace_data(expression_value))
                /\ hist' = Remember(hist, user_id,
                       [op |-> "update_item", d |-> delay_info_messages,
                        after_put |-> IF hist[user_id].op = "put_item"
                                      THEN Some(hist[user_id].t) ELSE None])
                /\ result' = [op |-> "update_user", user_id |-> user_id,
                              outcome |-> "ok"]
           ELSE /\ UNCHANGED <<table, hist>>
                /\ result' = [op |-> "update_user", user_id |-> user_id,
                              outcome |-> Raise(out)]
        /\ UNCHANGED <<clock, callers>>

update_railway(delay_info_messages, out) ==
    update_user(RAILWAY, delay_info_messages, out)

delete_user(user_id, out) ==
    /\ calls' = Invoke("delete_item", out)
    /\ IF out = "ok"
       THEN /\ table' = DeleteItem(table, user_id)
            /\ hist' = Remember(hist, user_id,
                   [op |-> "delete_item", existed |-> HasKey(table, user_id)])
            /\ result' = [op |-> "delete_user", user_id |-> user_id,
                          outcome |-> "ok"]
       ELSE /\ UNCHANGED <<table, hist>>
            /\ result' = [op |-> "delete_user", user_id |-> user_id,
                          outcome |-> Raise(out)]
    /\ UNCHANGED <<clock, callers>>

\* The value get_user returns when its get_item succeeds.
GetUser(tbl, user_id) ==
    LET item == GetItem(tbl, user_id)
    IN  IF item # None THEN Some(UserOfItem(item[1])) ELSE None

get_user(user_id, out) ==
    /\ calls' = Invoke("get_item", out)
    /\ result' = IF out = "ok"
                 THEN [op |-> "get_user", user_id |-> user_id,
                       outcome |-> "ok", ret |-> GetUser(table, user_id)]
                 ELSE [op |-> "get_user", user_id |-> user_id,
                       outcome |-> Raise(out), ret |-> None]
    /\ UNCHANGED <<table, clock, hist, callers>>

get_railway(out) ==
    /\ calls' = Invoke("get_item", out)
    /\ result' = IF out = "ok"
                 THEN LET r == RailwayOrRaise(GetUser(table, RAILWAY))
                      IN  [op |-> "get_railway", user_id |-> RAILWAY,
                           outcome |-> r.outcome, ret |-> r.ret]
                 ELSE [op |-> "get_railway", user_id |-> RAILWAY,
                       outcome |-> Raise(out), ret |-> None]
    /\ UNCHANGED <<table, clock, hist, callers>>

scan_exclude_railway(out) ==
    /\ calls' = Invoke("scan", out)
    /\ IF out = "ok"
       THEN \E order \in ScanOrders(table) :
              LET items == ScanItems(order)
                  users == [n \in 1..Len(items) |-> UserOfItem(items[n])]
              IN  result' = [op |-> "scan_exclude_railway",
                             outcome |-> "ok", users |-> users]
       ELSE result' = [op |-> "scan_exclude_railway",
                       outcome |-> Raise(out), users |-> <<>>]
    /\ UNCHANGED <<table, clock, hist, callers>>

Next ==
    \/ Tick
    \/ \E user_id \in UserIds, out \in StoreOutcomes : put_user(user_id, out)
    \/ \E user_id \in UserIds, d \in Payloads, out \in StoreOutcomes :
          update_user(user_id, d, out)
    \/ \E d \in Payloads, out \in StoreOutcomes : update_railway(d, out)
    \/ \E user_id \in UserIds, out \in StoreOutcomes : delete_user(user_id, out)
    \/ \E user_id \in UserIds, out \in StoreOutcomes : get_user(user_id, out)
    \/ \E out \in StoreOutcomes : get_railway(out)
    \/ \E out \in StoreOutcomes : scan_exclude_railway(out)

Spec == Init /\ [][Next]_vars

(***************************************************************************)
(* The same operations called by several callers at once. A call reads the *)
(* clock first (put_user line 27, update_user line 58) and sends its one   *)
(* request to the store later; the store serves one request at a time.     *)
(***************************************************************************)

\* put_user up to its put_item: the clock is read and the User is built.
put_user_begin(c, user_id) ==
    /\ callers[c].pc = "idle"
    /\ callers' = [callers EXCEPT ![c] =
                     [pc |-> "put_item",
                      user |-> User(user_id, Some(clock), Some(clock), None)]]
    /\ UNCHANGED <<table, clock, result, calls, hist>>

\* put_user from its put_item to its return or raise.
put_user_put_item(c, out) ==
    /\ callers[c].pc = "put_item"
    /\ table' = IF out = "ok"
                THEN PutItem(table, replace_data(UserToDict(callers[c].user)))
                ELSE table
    /\ callers' = [callers EXCEPT ![c] = Idle]
    /\ UNCHANGED <<clock, result, calls, hist>>

\* update_user up to its update_item: expression_value holds the clock reading.
update_user_begin(c, user_id, delay_info_messages) ==
    /\ callers[c].pc = "idle"
    /\ callers' = [callers EXCEPT ![c] =
                     [pc |-> "update_item", user_id |-> user_id,
                      expression_value |->
                          ExpressionValue(delay_info_messages, clock)]]
    /\ UNCHANGED <<table, clock, result, calls, hist>>

\* update_user from its update_item to its return or raise.
update_user_update_item(c, out) ==
    /\ callers[c].pc = "update_item"
    /\ table' = IF out = "ok"
                THEN UpdateItem(table, callers[c].user_id,
                                replace_data(callers[c].expression_value))
                ELSE table
    /\ callers' = [callers EXCEPT ![c] = Idle]
    /\ UNCHANGED <<clock, result, calls, hist>>

\* delete_user reads no clock: the call is its one request.
delete_user_call(c, user_id, out) ==
    /\ callers[c].pc = "idle"
    /\ table' = IF out = "ok" THEN DeleteItem(table, user_id) ELSE table
    /\ UNCHANGED <<clock, result, calls, hist, callers>>

NextConc ==
    \/ Tick
    \/ \E c \in 1..NumCallers, user_id \in UserIds : put_user_begin(c, user_id)
    \/ \E c \in 1..NumCallers, out \in StoreOutcomes : put_user_put_item(c, out)
    \/ \E c \in 1..NumCallers, user_id \in UserIds, d \in Payloads :
          update_user_begin(c, user_id, d)
    \/ \E c \in 1..NumCallers, out \in StoreOutcomes :
          update_user_update_item(c, out)
    \/ \E c \in 1..NumCallers, user_id \in UserIds, out \in StoreOutcomes :
          delete_user_call(c, user_id, out)

SpecConc == Init /\ [][NextConc]_vars

(***************************************************************************)
(* Properties.                                                             *)
(***************************************************************************)

\* The user a successful get_user has just returned, and the last write on
\* its key.
GotUser == result.op = "get_user" /\ result.outcome = "ok"

\* C1: put_user(u), then update_user(u, P), then get_user(u), with no other
\* write on u in between, returns a user whose delay_info_messages is the
\* mapping of P, whose created_time is the one the put_user wrote, and whose
\* updated_time is not before its created_time.
C1_CreateUpdateGet ==
    (/\ GotUser
     /\ hist[result.user_id].op = "update_item"
     /\ hist[result.user_id].after_put # None)
    => /\ result.ret # None
       /\ LET u == result.ret[1]
              h == hist[result.user_id]
          IN  /\ u.user_id = result.user_id
              /\ u.delay_info_messages = Some(MessagesToDict(h.d))
              /\ u.created_time = h.after_put
              /\ u.updated_time # None
              /\ u.updated_time[1] >= u.created_time[1]

\* A get_user after put_user and a later update_user of the same key.
C1_Witness ==
    /\ GotUser
    /\ hist[result.user_id].op = "update_item"
    /\ hist[result.user_id].after_put # None
    /\ result.ret # None
    /\ result.ret[1].updated_time[1] > result.ret[1].created_time[1]

\* C2: put_user(u) and then get_user(u) returns a user with
\* created_time = updated_time and no delay_info_messages, whatever the table
\* held under u before.
C2_CreateGet ==
    (GotUser /\ hist[result.user_id].op = "put_item")
    => /\ result.ret # None
       /\ LET u == result.ret[1]
          IN  /\ u.user_id = result.user_id
              /\ u.created_time = Some(hist[result.user_id].t)
              /\ u.created_time = u.updated_time
              /\ u.delay_info_messages = None

\* A get_user after a put_user that replaced an item with a payload.
C2_Witness ==
    /\ GotUser
    /\ hist[result.user_id].op = "put_item"
    /\ hist[result.user_id].had_payload
    /\ result.ret # None

\* C3: scan_exclude_railway returns no user with user_id "railway" and
\* returns every other item of the table exactly once.
C3_ScanComplete ==
    (result.op = "scan_exclude_railway" /\ result.outcome = "ok")
    => /\ \A n \in 1..Len(result.users) : result.users[n].user_id # RAILWAY
       /\ \A item \in table :
             item.user_id # RAILWAY =>
             Cardinality({n \in 1..Len(result.users) :
                             result.users[n] = UserOfItem(item)}) = 1

\* C4: get_railway, when its request to the store succeeds, raises
\* DynamoDBError exactly when the table holds no item with key "railway" and
\* returns the user of that item otherwise; it never changes the table.
C4_GetRailway ==
    [][\A out \in StoreOutcomes :
         get_railway(out) =>
            /\ table' = table
            /\ out = "ok" =>
                 /\ (result'.outcome = "DynamoDBError") <=> ~HasKey(table, RAILWAY)
                 /\ HasKey(table, RAILWAY) =>
                      /\ result'.outcome = "ok"
                      /\ result'.ret # None
                      /\ result'.ret[1].user_id = RAILWAY
                      /\ UserToDict(result'.ret[1]) = ItemOf(table, RAILWAY)
                 /\ ~HasKey(table, RAILWAY) => result'.ret = None]_vars

\* get_railway has raised DynamoDBError on a table that holds other users.
C4_Witness ==
    /\ result.op = "get_railway"
    /\ result.outcome = "DynamoDBError"
    /\ table # {}

\* C5: delete_user(u), when its request to the store succeeds, raises
\* nothing whether or not u has an item, leaves the table as it is when u
\* has none, and a get_user(u) right after it returns None.
C5_DeleteGet ==
    /\ []((GotUser /\ hist[result.user_id].op = "delete_item")
            => result.ret = None)
    /\ [][\A u \in UserIds :
            delete_user(u, "ok") =>
               /\ result'.outcome = "ok"
               /\ ~HasKey(table', u)
               /\ ~HasKey(table, u) => table' = table
               /\ \A i \in table : i.user_id # u => i \in table']_vars

\* A get_user has returned None after the delete_user of an existing item.
C5_Witness ==
    /\ GotUser
    /\ hist[result.user_id].op = "delete_item"
    /\ hist[result.user_id].existed
    /\ result.ret = None

RailwayItems == {i \in table : i.user_id = RAILWAY}

\* C6 as stated: exactly one item with user_id "railway" exists.
C6_ExactlyOneRailway == Cardinality(RailwayItems) = 1

\* C6 as amended: at most one item with user_id "railway" exists; there is
\* none before the first write on that key and after its delete_user.
C6_AtMostOneRailway ==
    /\ Cardinality(RailwayItems) <= 1
    /\ hist[RAILWAY].op \in {"none", "delete_item"} => RailwayItems = {}
    /\ hist[RAILWAY].op \in {"put_item", "update_item"} =>
          Cardinality(RailwayItems) = 1

\* A put_user("railway") has replaced the railway item.
C6_Witness ==
    /\ hist[RAILWAY].op = "put_item"
    /\ hist[RAILWAY].had_payload
    /\ Cardinality(RailwayItems) = 1

\* C7 as stated: every item has user_id, created_time and updated_time.
C7_NoPartialRecord ==
    \A i \in table : {"user_id", "created_time", "updated_time"} \subseteq DOMAIN i

\* C7 as amended: every item has user_id and updated_time; an item without
\* created_time is one that update_user made for a key that had no item, and
\* it holds delay_info_messages.
C7_KeyAndUpdatedTime ==
    \A i \in table :
       /\ {"user_id", "updated_time"} \subseteq DOMAIN i
       /\ "created_time" \notin DOMAIN i =>
             /\ "delay_info_messages" \in DOMAIN i
             /\ hist[i.user_id].op = "update_item"
             /\ hist[i.user_id].after_put = None

\* update_user has made an item for a key that had none.
C7_Witness ==
    \E i \in table :
       /\ "created_time" \notin DOMAIN i
       /\ i.user_id # RAILWAY

CreatedTime(tbl, user_id) == Get(ItemOf(tbl, user_id), "created_time")

\* C8 as stated: while an item exists, no operation changes its created_time.
C8_CreatedTimeImmutable ==
    [][\A u \in UserIds :
         (/\ HasKey(table, u)
          /\ HasKey(table', u)
          /\ CreatedTime(table, u) # None)
         => CreatedTime(table', u) = CreatedTime(table, u)]_vars

\* The operation whose call is the step (every call records itself in result;
\* a step of the clock alone changes no table).
Called(op) == result'.op = op /\ clock' = clock

\* C8 as amended: update_user and update_railway never change the
\* created_time of an existing item; put_user on an existing key writes the
\* created_time anew, as the clock reading of that call.
C8_CreatedTimeKeptByUpdate ==
    [][/\ (Called("update_user") /\ HasKey(table, result'.user_id))
          => /\ HasKey(table', result'.user_id)
             /\ CreatedTime(table', result'.user_id) =
                   CreatedTime(table, result'.user_id)
       /\ (Called("put_user") /\ result'.outcome = "ok")
          => CreatedTime(table', result'.user_id) = Some(clock)]_vars

\* update_user has rewritten an item that put_user made at an earlier time.
C8_Witness ==
    /\ result.op = "update_user"
    /\ result.outcome = "ok"
    /\ HasKey(table, result.user_id)
    /\ LET i == ItemOf(table, result.user_id)
       IN  /\ "created_time" \in DOMAIN i
           /\ i.updated_time > i.created_time

ApiOf(op) ==
    CASE op = "put_user" -> "put_item"
      [] op = "update_user" -> "update_item"
      [] op = "delete_user" -> "delete_item"
      [] op = "get_user" -> "get_item"
      [] op = "scan_exclude_railway" -> "scan"

\* C9: put_user, update_user, delete_user, get_user and scan_exclude_railway
\* each send exactly one request to the store; when it fails the operation
\* ends with that very failure and sends nothing more.
C9_OneCallNoRetry ==
    result.op \in {"put_user", "update_user", "delete_user", "get_user",
                   "scan_exclude_railway"}
    => /\ Len(calls) = 1
       /\ calls[1].api = ApiOf(result.op)
       /\ result.outcome = calls[1].raised

\* A scan has failed with an exception of the store.
C9_Witness ==
    /\ result.op = "scan_exclude_railway"
    /\ result.outcome = "EndpointConnectionError"
    /\ Len(calls) = 1

\* C10: with concurrent put_user and update_user calls, every item that has
\* both times has updated_time >= created_time.
C10_UpdatedNotBeforeCreated ==
    \A i \in table :
       {"created_time", "updated_time"} \subseteq DOMAIN i
       => i.updated_time >= i.created_time

=============================================================================
